---- MODULE Spec2Model ----
(***************************************************************************)
(* The report intake workflow of the UploadModal component                 *)
(* (src/unnamed/part_000): the component's state, its event handlers and   *)
(* the asynchronous calls (HEIC conversion, geolocation, analysis) whose   *)
(* continuations run after the handler that started them has returned.     *)
(*                                                                         *)
(* A nullable value of the program is a sequence of length 0 (null) or 1.  *)
(***************************************************************************)
EXTENDS Integers, Sequences, FiniteSets, Bags, TLC

VARIABLES
    isOpen,       \* prop isOpen, owned by the parent: onClose() clears it
    step,         \* useState<UploadStep>
    file,         \* useState<File | null>
    mediaUrl,     \* useState<string | null>: an object URL handle
    coordinates,  \* useState<Coordinates | null>
    geoMethod,    \* useState<'auto' | 'manual'>
    geoError,     \* useState<string | null>
    analysis,     \* useState<AnalyzeResponse | null>
    isAnalyzing,  \* useState(false)
    error,        \* useState<string | null>
    calls,        \* the bag of awaited calls that have not completed yet
    revoked,      \* revoked[h]: how often URL.revokeObjectURL(h) ran; Len = handles created
    submitted,    \* the drafts handed to onSubmit, in order
    analysisFile, \* the file of the request whose response is stored in analysis
    returnedEarly,\* the handler invoked last took an early return
    nCalls,       \* the number of awaited calls the handlers have been granted
    clock,        \* the server's time in milliseconds: what new Date() reads
    areas,        \* the documents of the collection 'areas'
    reports,      \* the documents of the collection 'reports', in insertion order
    posts,        \* the addReport calls of the run with their POST /api/reports requests
    listed,       \* the response of GET /api/reports, when the last step was that request
    lastDelete,   \* the DELETE /api/areas/[id] request and its response, when the last step was that
    localReports, \* useReports: useState<Report[]>([])
    isSubmitting, \* useReports: useState(false)
    isLoaded,     \* useReports: useState(false)
    fetches,      \* the GET /api/reports requests of fetchReports and refreshReports
    removing      \* the DELETE /api/reports/[id] requests of removeReport on their way

progVars == <<step, file, mediaUrl, coordinates, geoMethod, geoError, analysis,
              isAnalyzing, error>>

\* The UploadModal with its awaited calls
modalVars == <<isOpen, step, file, mediaUrl, coordinates, geoMethod, geoError, analysis,
               isAnalyzing, error, calls, revoked, submitted, analysisFile,
               returnedEarly, nCalls>>

\* The database, the requests to the API routes and the useReports hook
\* What useReports adds for loading, refreshing and removing
hookVars == <<isLoaded, fetches, removing>>

storeVars == <<clock, areas, reports, posts, listed, lastDelete, localReports,
               isSubmitting, hookVars>>

vars == <<modalVars, storeVars>>

----------------------------------------------------------------------------
(* Bounds of the model *)

\* awaited calls (conversion, geolocation, analysis) started in a run
MaxCalls == 5

\* addReport calls, each with one POST /api/reports request, in a run
MaxPosts == 2

\* milliseconds the server's clock advances in a run
MaxClock == 1

\* GET /api/reports requests of the hook in a run: the initial fetch, then refreshes
MaxFetches == 2

----------------------------------------------------------------------------
(* Values *)

Null == <<>>

Some(x) == <<x>>

Val(o) == o[1]

MiB == 1024 * 1024

MaxFileSize == 20 * MiB

SmallSize == 3 * MiB

ErrNotMedia == "Please select an image or video file"

ErrTooLarge == "File must be under 20MB"

ErrConvert == "Failed to convert HEIC image. Please try a different format."

ErrGeo == "Could not get your location. Pan the map to set location."

ErrAnalyze == "Failed to analyze media. Please try again."

\* The files the reporter may choose: name = stem.ext, declared content type, bytes.
ClipExact == [stem |-> "clip", ext |-> "mp4", type |-> "video/mp4", size |-> MaxFileSize]

HeicByExt == [stem |-> "IMG_1", ext |-> "HEIC", type |-> "", size |-> SmallSize]

HeifByType == [stem |-> "scan", ext |-> "png", type |-> "image/heif", size |-> SmallSize]

Notes == [stem |-> "notes", ext |-> "txt", type |-> "text/plain", size |-> SmallSize]

PhotoOver == [stem |-> "photo", ext |-> "jpg", type |-> "image/jpeg", size |-> MaxFileSize + 1]

Photo25 == [stem |-> "photo", ext |-> "jpg", type |-> "image/jpeg", size |-> 25 * MiB]

InputFiles == {ClipExact, HeicByExt, HeifByType, Notes, PhotoOver, Photo25}

\* Positions: what the device reports, and where the reporter can put the pin
DeviceFixes == {"gps"}

PinPositions == {"pin"}

\* The judgments the classifier may return
Results == {"judgment"}

----------------------------------------------------------------------------
(* Pure functions *)

\* String.prototype.toLowerCase on the strings of the model
ToLower(s) ==
    CASE s = "HEIC" -> "heic"
      [] s = "HEIF" -> "heif"
      [] OTHER -> s

\* type.startsWith(prefix), case-sensitive
StartsWith(type, prefix) ==
    CASE prefix = "image/" -> type \in {"image/jpeg", "image/png", "image/heic", "image/heif"}
      [] prefix = "video/" -> type \in {"video/mp4"}
      [] OTHER -> FALSE

isHeicFile(f) ==
    \/ ToLower(f.ext) = "heic"
    \/ ToLower(f.ext) = "heif"
    \/ ToLower(f.type) = "image/heic"
    \/ ToLower(f.type) = "image/heif"

\* file.name.replace(/\.(heic|heif)$/i, '.jpg'), type image/jpeg, the blob's bytes
convertHeicToJpeg(f, blobSize) ==
    [stem |-> f.stem,
     ext |-> IF ToLower(f.ext) \in {"heic", "heif"} THEN "jpg" ELSE f.ext,
     type |-> "image/jpeg",
     size |-> blobSize]

isImage(f) == StartsWith(f.type, "image/") \/ isHeicFile(f)

isVideo(f) == StartsWith(f.type, "video/")

\* The size check with the limit itself refused
IsTooLargeInclusive(f) == f.size >= MaxFileSize

IsTooLarge(f) == f.size > MaxFileSize

----------------------------------------------------------------------------
(* Values of the store *)

\* Coordinates as the API carries them: latitude and longitude
Coord(lat, lng) == [lat |-> lat, lng |-> lng]

Mission == Coord(36, -121)

Harbor == Coord(40, -74)

NullIsland == Coord(0, 0)

\* The string of the n-th ObjectId: 24 hexadecimal characters
ObjectIdString(n) == [chars |-> 24, hex |-> TRUE, n |-> n]

\* An id that is not the string of an ObjectId, such as "downtown"
NotAnObjectId == [chars |-> 8, hex |-> FALSE, n |-> 0]

\* An area document: its polygon is given by the GeoJSON positions [lng, lat] it
\* contains, the boundary included
Area(n, polygon, isActive) ==
    [id |-> ObjectIdString(n), polygon |-> polygon, isActive |-> isActive]

City == Area(1, {<<-122, 37>>, <<-121, 36>>}, TRUE)

District == Area(2, {<<-121, 36>>}, TRUE)

Retired == Area(3, {<<-74, 40>>, <<-121, 36>>}, FALSE)

SeedAreas == {City, District, Retired}

\* The ids a DELETE /api/areas/[id] request may carry
DeleteIds == {City.id, NotAnObjectId}

\* Request bodies of POST /api/reports: the fields the route reads, and a status
\* field a caller may add
Body(coords, status) ==
    [coordinates |-> coords, media |-> "photo", analysis |-> Some("judgment"),
     geoMethod |-> "auto", status |-> status]

Bodies ==
    {Body(Some(Mission), Null),
     Body(Some(Harbor), Some("resolved")),
     Body(Some(NullIsland), Null),
     Body(Null, Null)}

----------------------------------------------------------------------------

Init ==
    /\ isOpen = TRUE
    /\ step = "select"
    /\ file = Null
    /\ mediaUrl = Null
    /\ coordinates = Null
    /\ geoMethod = "auto"
    /\ geoError = Null
    /\ analysis = Null
    /\ isAnalyzing = FALSE
    /\ error = Null
    /\ calls = EmptyBag
    /\ revoked = <<>>
    /\ submitted = <<>>
    /\ analysisFile = Null
    /\ returnedEarly = FALSE
    /\ nCalls = 0
    /\ clock = 0
    /\ areas = SeedAreas
    /\ reports = <<>>
    /\ posts = <<>>
    /\ listed = Null
    /\ lastDelete = Null
    /\ localReports = <<>>
    /\ isSubmitting = FALSE
    /\ isLoaded = FALSE
    /\ fetches = <<>>
    /\ removing = {}

----------------------------------------------------------------------------
(* Object URL handles: handle h is the h-th URL.createObjectURL of the run *)

Handles == 1..Len(revoked)

NewHandle == Len(revoked) + 1

\* URL.revokeObjectURL(url) guarded by `if (mediaUrl)`
RevokeIfHeld(url) ==
    IF url # Null THEN [revoked EXCEPT ![Val(url)] = @ + 1] ELSE revoked

\* A call whose draft has been reset is superseded; nothing in the code records it.
Superseded(cs) ==
    LET late(c) == [c EXCEPT !.stale = TRUE]
    IN  [c \in {late(d) : d \in BagToSet(cs)} |->
            CopiesIn(c, cs) + (IF c.stale THEN CopiesIn([c EXCEPT !.stale = FALSE], cs) ELSE 0)]

\* An awaited call: its kind, the file it was given, whether its draft was reset since,
\* and the mediaUrl and coordinates of the moment it started
Call(kind, f, stale, media, coords) ==
    [kind |-> kind, file |-> f, stale |-> stale, media |-> media, coords |-> coords]

Started(c) == calls (+) SetToBag({c})

Completed(c) == calls (-) SetToBag({c})

\* The awaited calls a selection of f leads to: a conversion is followed by a
\* geolocation request
CallsOf(f) == IF isHeicFile(f) THEN 2 ELSE 1

----------------------------------------------------------------------------
(* Handlers *)

\* resetState without its setAnalysis(null)
resetStateKeepsAnalysis ==
    /\ step' = "select"
    /\ file' = Null
    /\ revoked' = RevokeIfHeld(mediaUrl)
    /\ mediaUrl' = Null
    /\ coordinates' = Null
    /\ geoMethod' = "auto"
    /\ geoError' = Null
    /\ analysis' = analysis
    /\ isAnalyzing' = FALSE
    /\ error' = Null

\* resetState without its URL.revokeObjectURL
resetStateNoRevoke ==
    /\ step' = "select"
    /\ file' = Null
    /\ revoked' = revoked
    /\ mediaUrl' = Null
    /\ coordinates' = Null
    /\ geoMethod' = "auto"
    /\ geoError' = Null
    /\ analysis' = Null
    /\ isAnalyzing' = FALSE
    /\ error' = Null

resetState ==
    /\ step' = "select"
    /\ file' = Null
    /\ revoked' = RevokeIfHeld(mediaUrl)
    /\ mediaUrl' = Null
    /\ coordinates' = Null
    /\ geoMethod' = "auto"
    /\ geoError' = Null
    /\ analysis' = Null
    /\ isAnalyzing' = FALSE
    /\ error' = Null

\* The close control is rendered in every step but location
CloseOffered == isOpen /\ step # "location"

handleClose ==
    /\ CloseOffered
    /\ resetState
    /\ isOpen' = FALSE
    /\ calls' = Superseded(calls)
    /\ analysisFile' = Null
    /\ returnedEarly' = FALSE
    /\ UNCHANGED <<submitted>>
    /\ UNCHANGED <<nCalls, storeVars>>

\* The parent shows the modal again; the component kept its state
Reopen ==
    /\ ~isOpen
    /\ isOpen' = TRUE
    /\ returnedEarly' = FALSE
    /\ UNCHANGED <<progVars, calls, revoked, submitted, analysisFile>>
    /\ UNCHANGED <<nCalls, storeVars>>

\* handleFileSelect up to its first await, for the chosen file sel (Null: none chosen)
handleFileSelect(sel) ==
    /\ isOpen
    /\ step = "select"
    /\ IF sel = Null
       THEN /\ returnedEarly' = TRUE
            /\ UNCHANGED <<progVars, calls, revoked, nCalls>>
       ELSE LET f == Val(sel) IN
            IF ~isImage(f) /\ ~isVideo(f)
            THEN /\ error' = Some(ErrNotMedia)
                 /\ returnedEarly' = TRUE
                 /\ UNCHANGED <<step, file, mediaUrl, coordinates, geoMethod, geoError,
                                analysis, isAnalyzing, calls, revoked, nCalls>>
            ELSE IF IsTooLarge(f)
            THEN /\ error' = Some(ErrTooLarge)
                 /\ returnedEarly' = TRUE
                 /\ UNCHANGED <<step, file, mediaUrl, coordinates, geoMethod, geoError,
                                analysis, isAnalyzing, calls, revoked, nCalls>>
            ELSE /\ nCalls + CallsOf(f) <= MaxCalls
                 /\ nCalls' = nCalls + CallsOf(f)
                 /\ error' = Null
                 /\ IF isHeicFile(f)
                    THEN /\ step' = "converting"
                         /\ calls' = Started(Call("convert", sel, FALSE, Null, Null))
                         /\ returnedEarly' = FALSE
                         /\ UNCHANGED <<file, mediaUrl, revoked>>
                    ELSE /\ file' = sel
                         /\ mediaUrl' = Some(NewHandle)
                         /\ revoked' = Append(revoked, 0)
                         /\ step' = "location"
                         /\ calls' = Started(Call("geo", Null, FALSE, Null, Null))
                         /\ returnedEarly' = FALSE
                 /\ UNCHANGED <<coordinates, geoMethod, geoError, analysis, isAnalyzing>>
    /\ UNCHANGED <<isOpen, submitted, analysisFile, storeVars>>

\* handleFileSelect resumed after convertHeicToJpeg resolved
ConvertResolved(c, blobSize) ==
    /\ BagIn(c, calls) /\ c.kind = "convert"
    /\ file' = Some(convertHeicToJpeg(Val(c.file), blobSize))
    /\ mediaUrl' = Some(NewHandle)
    /\ revoked' = Append(revoked, 0)
    /\ step' = "location"
    /\ calls' = Completed(c) (+) SetToBag({Call("geo", Null, c.stale, Null, Null)})
    /\ returnedEarly' = FALSE
    /\ UNCHANGED <<isOpen, coordinates, geoMethod, geoError, analysis, isAnalyzing, error,
                   submitted, analysisFile>>
    /\ UNCHANGED <<nCalls, storeVars>>

\* handleFileSelect resumed in its catch after convertHeicToJpeg rejected
ConvertRejected(c) ==
    /\ BagIn(c, calls) /\ c.kind = "convert"
    /\ error' = Some(ErrConvert)
    /\ step' = "select"
    /\ calls' = Completed(c)
    /\ returnedEarly' = FALSE
    /\ UNCHANGED <<isOpen, file, mediaUrl, coordinates, geoMethod, geoError, analysis,
                   isAnalyzing, revoked, submitted, analysisFile>>
    /\ UNCHANGED <<nCalls, storeVars>>

\* handleFileSelect resumed after getCurrentPosition resolved with pos
GeoResolved(c, pos) ==
    /\ BagIn(c, calls) /\ c.kind = "geo"
    /\ coordinates' = Some(pos)
    /\ geoMethod' = "auto"
    /\ geoError' = Null
    /\ calls' = Completed(c)
    /\ returnedEarly' = FALSE
    /\ UNCHANGED <<isOpen, step, file, mediaUrl, analysis, isAnalyzing, error, revoked,
                   submitted, analysisFile>>
    /\ UNCHANGED <<nCalls, storeVars>>

\* The catch of getCurrentPosition also dropping the coordinates
GeoRejectedClearsCoordinates(c) ==
    /\ BagIn(c, calls) /\ c.kind = "geo"
    /\ geoError' = Some(ErrGeo)
    /\ geoMethod' = "manual"
    /\ coordinates' = Null
    /\ calls' = Completed(c)
    /\ returnedEarly' = FALSE
    /\ UNCHANGED <<isOpen, step, file, mediaUrl, analysis, isAnalyzing, error, revoked,
                   submitted, analysisFile>>
    /\ UNCHANGED <<nCalls, storeVars>>

\* handleFileSelect resumed in its catch after getCurrentPosition rejected
GeoRejected(c) ==
    /\ BagIn(c, calls) /\ c.kind = "geo"
    /\ geoError' = Some(ErrGeo)
    /\ geoMethod' = "manual"
    /\ calls' = Completed(c)
    /\ returnedEarly' = FALSE
    /\ UNCHANGED <<isOpen, step, file, mediaUrl, coordinates, analysis, isAnalyzing, error,
                   revoked, submitted, analysisFile>>
    /\ UNCHANGED <<nCalls, storeVars>>

\* handleCenterChange(coords): the Map's onCenterChange callback
handleCenterChange(coords) ==
    /\ coordinates' = Some(coords)
    /\ geoMethod' = IF geoMethod = "auto" /\ geoError = Null THEN geoMethod ELSE "manual"
    /\ geoError' = Null

\* The Map is mounted in the location step only
MapMounted == isOpen /\ step = "location"

\* The reporter pans the map to pos
ManualCenterChange(pos) ==
    /\ MapMounted
    /\ handleCenterChange(pos)
    /\ returnedEarly' = FALSE
    /\ UNCHANGED <<isOpen, step, file, mediaUrl, analysis, isAnalyzing, error, calls,
                   revoked, submitted, analysisFile>>
    /\ UNCHANGED <<nCalls, storeVars>>

\* The Map recentres on initialCenter after the automatic fix and reports it
ProgrammaticCenterChange ==
    /\ MapMounted
    /\ coordinates # Null
    /\ Val(coordinates) \in DeviceFixes
    /\ handleCenterChange(Val(coordinates))
    /\ returnedEarly' = FALSE
    /\ UNCHANGED <<isOpen, step, file, mediaUrl, analysis, isAnalyzing, error, calls,
                   revoked, submitted, analysisFile>>
    /\ UNCHANGED <<nCalls, storeVars>>

\* The confirm button: rendered in location, disabled={!coordinates || isAnalyzing}
ConfirmEnabled == isOpen /\ step = "location" /\ ~(coordinates = Null \/ isAnalyzing)

\* The early return of handleAnalyze without its file check
AnalyzeRefusedIgnoresFile == coordinates = Null

\* The early return of handleAnalyze
AnalyzeRefused == file = Null \/ coordinates = Null

\* handleAnalyze up to its await of fetch('/api/analyze')
handleAnalyze ==
    /\ ConfirmEnabled
    /\ IF AnalyzeRefused
       THEN /\ returnedEarly' = TRUE
            /\ UNCHANGED <<step, isAnalyzing, error, calls, nCalls>>
       ELSE /\ nCalls < MaxCalls
            /\ nCalls' = nCalls + 1
            /\ step' = "analyzing"
            /\ isAnalyzing' = TRUE
            /\ error' = Null
            /\ calls' = Started(Call("analyze", file, FALSE, mediaUrl, coordinates))
            /\ returnedEarly' = FALSE
    /\ UNCHANGED <<isOpen, file, mediaUrl, coordinates, geoMethod, geoError, analysis,
                   revoked, submitted, analysisFile, storeVars>>

\* handleAnalyze resumed with a 2xx response carrying result
AnalyzeResolved(c, result) ==
    /\ BagIn(c, calls) /\ c.kind = "analyze"
    /\ analysis' = Some(result)
    /\ analysisFile' = c.file
    /\ step' = "review"
    /\ isAnalyzing' = FALSE
    /\ calls' = Completed(c)
    /\ returnedEarly' = FALSE
    /\ UNCHANGED <<isOpen, file, mediaUrl, coordinates, geoMethod, geoError, error,
                   revoked, submitted>>
    /\ UNCHANGED <<nCalls, storeVars>>

\* The catch of handleAnalyze without its setStep('location') and its finally
AnalyzeRejectedStaysAnalyzing(c) ==
    /\ BagIn(c, calls) /\ c.kind = "analyze"
    /\ error' = Some(ErrAnalyze)
    /\ calls' = Completed(c)
    /\ returnedEarly' = FALSE
    /\ UNCHANGED <<isOpen, step, file, mediaUrl, coordinates, geoMethod, geoError, analysis,
                   isAnalyzing, revoked, submitted, analysisFile>>
    /\ UNCHANGED <<nCalls, storeVars>>

\* handleAnalyze resumed in its catch: fetch rejected or the response was not ok
AnalyzeRejected(c) ==
    /\ BagIn(c, calls) /\ c.kind = "analyze"
    /\ error' = Some(ErrAnalyze)
    /\ step' = "location"
    /\ isAnalyzing' = FALSE
    /\ calls' = Completed(c)
    /\ returnedEarly' = FALSE
    /\ UNCHANGED <<isOpen, file, mediaUrl, coordinates, geoMethod, geoError, analysis,
                   revoked, submitted, analysisFile>>
    /\ UNCHANGED <<nCalls, storeVars>>

\* The early return of handleSubmit
SubmitRefused == file = Null \/ mediaUrl = Null \/ coordinates = Null \/ analysis = Null

\* The report handleSubmit assembles
Draft ==
    [coordinates |-> Val(coordinates),
     mediaUrl |-> Val(mediaUrl),
     mediaType |-> IF StartsWith(Val(file).type, "image/") THEN "image" ELSE "video",
     fileName |-> <<Val(file).stem, Val(file).ext>>,
     fileSize |-> Val(file).size,
     analysis |-> Val(analysis),
     geoMethod |-> geoMethod,
     \* not fields of the report: where its parts came from
     ofFile |-> file,
     analysisOf |-> analysisFile]

\* The submit button is rendered in the review step
handleSubmit ==
    /\ isOpen
    /\ step = "review"
    /\ IF SubmitRefused
       THEN /\ returnedEarly' = TRUE
            /\ UNCHANGED <<isOpen, progVars, calls, revoked, submitted, analysisFile>>
       ELSE /\ submitted' = Append(submitted, Draft)
            /\ resetState
            /\ isOpen' = FALSE
            /\ calls' = Superseded(calls)
            /\ analysisFile' = Null
            /\ returnedEarly' = FALSE
    /\ UNCHANGED <<nCalls, storeVars>>

handleBackFromLocation ==
    /\ isOpen
    /\ step = "location"
    /\ step' = "select"
    /\ file' = Null
    /\ revoked' = RevokeIfHeld(mediaUrl)
    /\ mediaUrl' = Null
    /\ coordinates' = Null
    /\ geoError' = Null
    /\ calls' = Superseded(calls)
    /\ returnedEarly' = FALSE
    /\ UNCHANGED <<isOpen, geoMethod, analysis, isAnalyzing, error, submitted,
                   analysisFile>>
    /\ UNCHANGED <<nCalls, storeVars>>

\* The Back button of the review step: onClick={() => setStep('location')}
BackFromReview ==
    /\ isOpen
    /\ step = "review"
    /\ step' = "location"
    /\ returnedEarly' = FALSE
    /\ UNCHANGED <<isOpen, file, mediaUrl, coordinates, geoMethod, geoError, analysis,
                   isAnalyzing, error, calls, revoked, submitted, analysisFile>>
    /\ UNCHANGED <<nCalls, storeVars>>

----------------------------------------------------------------------------

BlobSizes == {SmallSize}

FileSelect == \E sel \in {Null} \cup {Some(f) : f \in InputFiles} : handleFileSelect(sel)

ConvertDone == \E c \in BagToSet(calls) : \E sz \in BlobSizes : ConvertResolved(c, sz)

ConvertFail == \E c \in BagToSet(calls) : ConvertRejected(c)

GeoDone == \E c \in BagToSet(calls) : \E pos \in DeviceFixes : GeoResolved(c, pos)

GeoFail == \E c \in BagToSet(calls) : GeoRejected(c)

ManualMove == \E pos \in PinPositions : ManualCenterChange(pos)

AnalyzeDone == \E c \in BagToSet(calls) : \E r \in Results : AnalyzeResolved(c, r)

AnalyzeFail == \E c \in BagToSet(calls) : AnalyzeRejected(c)

Next ==
    \/ FileSelect
    \/ ConvertDone
    \/ ConvertFail
    \/ GeoDone
    \/ GeoFail
    \/ ManualMove
    \/ ProgrammaticCenterChange
    \/ handleAnalyze
    \/ AnalyzeDone
    \/ AnalyzeFail
    \/ handleSubmit
    \/ handleBackFromLocation
    \/ BackFromReview
    \/ handleClose
    \/ Reopen

Spec == Init /\ [][Next]_vars

\* Every outstanding conversion and every outstanding analysis request completes
CallsComplete ==
    /\ WF_vars(ConvertDone \/ ConvertFail)
    /\ WF_vars(AnalyzeDone \/ AnalyzeFail)

LiveSpec == Init /\ [][Next]_vars /\ CallsComplete

----------------------------------------------------------------------------
(* The report store: the routes of /api/reports and /api/areas/[id], and the *)
(* useReports hook that calls them                                           *)

\* Date.prototype.toISOString of the time ms
toISOString(ms) == <<"ISO-8601", ms>>

\* The DbReport document with its status taken from the request body when it has one
NewReportTrustsBody(body, now) ==
    [_id |-> Null,
     createdAt |-> now,
     updatedAt |-> now,
     location |-> [type |-> "Point",
                   coordinates |-> <<Val(body.coordinates).lng, Val(body.coordinates).lat>>],
     media |-> body.media,
     ai |-> Val(body.analysis),
     geoMethod |-> body.geoMethod,
     status |-> IF body.status # Null THEN Val(body.status) ELSE "open",
     routing |-> Null]

\* The DbReport document POST builds from the request body at the time now
NewReport(body, now) ==
    [_id |-> Null,
     createdAt |-> now,
     updatedAt |-> now,
     location |-> [type |-> "Point",
                   coordinates |-> <<Val(body.coordinates).lng, Val(body.coordinates).lat>>],
     media |-> body.media,
     ai |-> Val(body.analysis),
     geoMethod |-> body.geoMethod,
     status |-> "open",
     routing |-> Null]

\* {polygon: {$geoIntersects: {$geometry: location}}} for a Point
geoIntersects(polygon, location) == location.coordinates \in polygon

\* The filter of findOne without its isActive: true
MatchingAreasAnyActivity(doc) == {a \in areas : geoIntersects(a.polygon, doc.location)}

\* The area documents the filter of findOne matches
MatchingAreas(doc) == {a \in areas : geoIntersects(a.polygon, doc.location) /\ a.isActive}

\* report.routing for the area findOne returned
Routing(matchingArea, now) ==
    [assignedAreaId |-> matchingArea.id, matchedBy |-> "geoWithin", matchedAt |-> now]

\* The requests whose insertOne succeeded
Inserted == {i \in DOMAIN posts : posts[i].doc # Null /\ Val(posts[i].doc)._id # Null}

\* The ObjectId the driver generates for the next inserted document
NewObjectId == Cardinality(Inserted) + 1

\* The body of the 201 response
createdReport(doc, body) ==
    [id |-> ObjectIdString(Val(doc._id)),
     createdAt |-> toISOString(doc.createdAt),
     coordinates |-> Coord(Val(body.coordinates).lat, Val(body.coordinates).lng),
     media |-> doc.media,
     analysis |-> doc.ai,
     geoMethod |-> doc.geoMethod,
     status |-> doc.status]

Created(report) == [status |-> 201, report |-> Some(report), error |-> Null]

Failed(status, message) == [status |-> status, report |-> Null, error |-> Some(message)]

\* An element of the array GET answers with
transformedReport(doc) ==
    [id |-> ObjectIdString(Val(doc._id)),
     createdAt |-> toISOString(doc.createdAt),
     coordinates |-> Coord(doc.location.coordinates[2], doc.location.coordinates[1]),
     media |-> doc.media,
     analysis |-> doc.ai,
     geoMethod |-> doc.geoMethod,
     status |-> doc.status]

\* find({}).sort({createdAt: -1}).toArray(): the orders in which the documents may
\* come, documents of equal createdAt in either order
SortedByCreatedAtDesc(docs) ==
    {[i \in DOMAIN docs |-> docs[p[i]]] :
        p \in {q \in Permutations(DOMAIN docs) :
                 \A i, j \in DOMAIN docs :
                     i < j => docs[q[i]].createdAt >= docs[q[j]].createdAt}}

\* ObjectId.isValid(id) for a string
isValid(id) == id.chars = 24 /\ id.hex

\* A request of addReport on its way: pc is the place the request has reached
Request(body) == [body |-> body, pc |-> "sent", doc |-> Null, response |-> Null]

\* addReport(reportData) up to its await of fetch
addReport(body) ==
    /\ Len(posts) < MaxPosts
    /\ isSubmitting' = TRUE
    /\ posts' = Append(posts, Request(body))
    /\ listed' = Null
    /\ lastDelete' = Null
    /\ UNCHANGED <<clock, areas, reports, localReports, modalVars>>
    /\ UNCHANGED hookVars

\* POST up to its await of findOne; ok: request.json() and getDatabase() resolved
POST(i, ok) ==
    /\ i \in DOMAIN posts
    /\ posts[i].pc = "sent"
    /\ IF ok /\ posts[i].body.coordinates # Null
       THEN posts' = [posts EXCEPT ![i].pc = "findOne",
                                   ![i].doc = Some(NewReport(posts[i].body, clock))]
       ELSE posts' = [posts EXCEPT ![i].pc = "responded",
                                   ![i].response = Some(Failed(500, "Failed to create report"))]
    /\ listed' = Null
    /\ lastDelete' = Null
    /\ UNCHANGED <<clock, areas, reports, localReports, isSubmitting, modalVars>>
    /\ UNCHANGED hookVars

\* POST resumed after findOne; found: the document findOne returned, or null
FindOneDone(i, ok, found) ==
    /\ i \in DOMAIN posts
    /\ posts[i].pc = "findOne"
    /\ IF ok
       THEN LET doc == Val(posts[i].doc) IN
            /\ IF MatchingAreas(doc) = {}
               THEN found = Null
               ELSE found # Null /\ Val(found) \in MatchingAreas(doc)
            /\ posts' = [posts EXCEPT
                   ![i].pc = "insertOne",
                   ![i].doc = Some([doc EXCEPT !.routing =
                                      IF found # Null
                                      THEN Some(Routing(Val(found), doc.createdAt))
                                      ELSE Null])]
       ELSE /\ found = Null
            /\ posts' = [posts EXCEPT
                   ![i].pc = "responded",
                   ![i].response = Some(Failed(500, "Failed to create report"))]
    /\ listed' = Null
    /\ lastDelete' = Null
    /\ UNCHANGED <<clock, areas, reports, localReports, isSubmitting, modalVars>>
    /\ UNCHANGED hookVars

\* The insert that leaves the response without the routing and stores it all the same
InsertOneDoneHalf(i, ok) ==
    /\ i \in DOMAIN posts
    /\ posts[i].pc = "insertOne"
    /\ LET stored == [Val(posts[i].doc) EXCEPT !._id = Some(NewObjectId)] IN
       /\ reports' = Append(reports, stored)
       /\ posts' = [posts EXCEPT
              ![i].pc = "responded",
              ![i].doc = Some(stored),
              ![i].response = IF ok
                              THEN Some(Created(createdReport(stored, posts[i].body)))
                              ELSE Some(Failed(500, "Failed to create report"))]
    /\ listed' = Null
    /\ lastDelete' = Null
    /\ UNCHANGED <<clock, areas, localReports, isSubmitting, modalVars>>
    /\ UNCHANGED hookVars

\* POST resumed after insertOne
InsertOneDone(i, ok) ==
    /\ i \in DOMAIN posts
    /\ posts[i].pc = "insertOne"
    /\ IF ok
       THEN LET stored == [Val(posts[i].doc) EXCEPT !._id = Some(NewObjectId)] IN
            /\ reports' = Append(reports, stored)
            /\ posts' = [posts EXCEPT
                   ![i].pc = "responded",
                   ![i].doc = Some(stored),
                   ![i].response = Some(Created(createdReport(stored, posts[i].body)))]
       ELSE /\ reports' = reports
            /\ posts' = [posts EXCEPT
                   ![i].pc = "responded",
                   ![i].response = Some(Failed(500, "Failed to create report"))]
    /\ listed' = Null
    /\ lastDelete' = Null
    /\ UNCHANGED <<clock, areas, localReports, isSubmitting, modalVars>>
    /\ UNCHANGED hookVars

\* addReport resumed after fetch: the response has arrived
addReportResumed(i) ==
    /\ i \in DOMAIN posts
    /\ posts[i].pc = "responded"
    /\ LET response == Val(posts[i].response) IN
       localReports' = IF response.status = 201
                       THEN <<Val(response.report)>> \o localReports
                       ELSE localReports
    /\ isSubmitting' = FALSE
    /\ posts' = [posts EXCEPT ![i].pc = "returned"]
    /\ listed' = Null
    /\ lastDelete' = Null
    /\ UNCHANGED <<clock, areas, reports, modalVars>>
    /\ UNCHANGED hookVars

\* What addReport returned: the new report, or null
Returned(i) ==
    IF Val(posts[i].response).status = 201 THEN Val(posts[i].response).report ELSE Null

\* GET /api/reports; ok: the database answered; sorted: the order toArray gave
GET(ok, sorted) ==
    /\ IF ok
       THEN /\ sorted \in SortedByCreatedAtDesc(reports)
            /\ listed' = Some([status |-> 200,
                               reports |-> [i \in DOMAIN sorted |-> transformedReport(sorted[i])]])
       ELSE /\ sorted = <<>>
            /\ listed' = Some([status |-> 500, reports |-> <<>>])
    /\ lastDelete' = Null
    /\ UNCHANGED <<clock, areas, reports, posts, localReports, isSubmitting, modalVars>>

\* DELETE that removes the area and the routing assignments that refer to it
DELETECascading(id, ok) ==
    /\ IF ~isValid(id)
       THEN /\ lastDelete' = Some([id |-> id, status |-> 400])
            /\ UNCHANGED <<areas, reports>>
       ELSE IF ~ok
       THEN /\ lastDelete' = Some([id |-> id, status |-> 500])
            /\ UNCHANGED <<areas, reports>>
       ELSE LET deletedCount == Cardinality({a \in areas : a.id = id}) IN
            /\ areas' = {a \in areas : a.id # id}
            /\ reports' = [k \in DOMAIN reports |->
                             IF reports[k].routing # Null
                                /\ Val(reports[k].routing).assignedAreaId = id
                             THEN [reports[k] EXCEPT !.routing = Null]
                             ELSE reports[k]]
            /\ lastDelete' = Some([id |-> id,
                                   status |-> IF deletedCount = 0 THEN 404 ELSE 200])
    /\ listed' = Null
    /\ UNCHANGED <<clock, posts, localReports, isSubmitting, modalVars>>
    /\ UNCHANGED hookVars

\* DELETE that answers success whether or not an area was deleted
DELETENoNotFound(id, ok) ==
    /\ IF ~isValid(id)
       THEN /\ lastDelete' = Some([id |-> id, status |-> 400])
            /\ UNCHANGED areas
       ELSE IF ~ok
       THEN /\ lastDelete' = Some([id |-> id, status |-> 500])
            /\ UNCHANGED areas
       ELSE /\ areas' = {a \in areas : a.id # id}
            /\ lastDelete' = Some([id |-> id, status |-> 200])
    /\ listed' = Null
    /\ UNCHANGED <<clock, reports, posts, localReports, isSubmitting, modalVars>>
    /\ UNCHANGED hookVars

\* DELETE /api/areas/[id]; ok: the database answered
DELETE(id, ok) ==
    /\ IF ~isValid(id)
       THEN /\ lastDelete' = Some([id |-> id, status |-> 400])
            /\ UNCHANGED areas
       ELSE IF ~ok
       THEN /\ lastDelete' = Some([id |-> id, status |-> 500])
            /\ UNCHANGED areas
       ELSE LET deletedCount == Cardinality({a \in areas : a.id = id}) IN
            /\ areas' = {a \in areas : a.id # id}
            /\ lastDelete' = Some([id |-> id,
                                   status |-> IF deletedCount = 0 THEN 404 ELSE 200])
    /\ listed' = Null
    /\ UNCHANGED <<clock, reports, posts, localReports, isSubmitting, modalVars>>
    /\ UNCHANGED hookVars

\* A millisecond passes on the server
Tick ==
    /\ clock < MaxClock
    /\ clock' = clock + 1
    /\ listed' = Null
    /\ lastDelete' = Null
    /\ UNCHANGED <<areas, reports, posts, localReports, isSubmitting, modalVars>>
    /\ UNCHANGED hookVars

Submit == \E body \in Bodies : addReport(body)

PostArrives == \E i \in DOMAIN posts : \E ok \in BOOLEAN : POST(i, ok)

Lookup ==
    \E i \in DOMAIN posts : \E ok \in BOOLEAN :
        \E found \in {Null} \cup {Some(a) : a \in areas} : FindOneDone(i, ok, found)

Insert == \E i \in DOMAIN posts : \E ok \in BOOLEAN : InsertOneDone(i, ok)

Respond == \E i \in DOMAIN posts : addReportResumed(i)

List ==
    \E ok \in BOOLEAN :
        \E sorted \in {<<>>} \cup SortedByCreatedAtDesc(reports) :
            GET(ok, sorted) /\ UNCHANGED hookVars

DeleteArea == \E id \in DeleteIds : \E ok \in BOOLEAN : DELETE(id, ok)

StoreNext ==
    \/ Submit
    \/ PostArrives
    \/ Lookup
    \/ Insert
    \/ Respond
    \/ List
    \/ DeleteArea
    \/ Tick

StoreSpec == Init /\ [][StoreNext]_vars

----------------------------------------------------------------------------
(* The useReports hook: loading, refreshing, removing and clearing the local *)
(* list, next to addReport                                                   *)

\* The body a report form sends
HookBodies == {Body(Some(NullIsland), Null)}

\* A GET request of the hook on its way; kind: the initial fetch or a refresh
Fetch(kind) == [kind |-> kind, pc |-> "sent", response |-> Null]

\* The effect of the mount has run
Mounted == \E k \in DOMAIN fetches : fetches[k].kind = "mount"

\* useEffect on mount: fetchReports up to its await of fetch
fetchReports ==
    /\ ~Mounted
    /\ Len(fetches) < MaxFetches
    /\ fetches' = Append(fetches, Fetch("mount"))
    /\ UNCHANGED <<clock, areas, reports, posts, listed, lastDelete, localReports,
                   isSubmitting, isLoaded, removing, modalVars>>

\* refreshReports up to its await of fetch
refreshReports ==
    /\ Mounted
    /\ Len(fetches) < MaxFetches
    /\ fetches' = Append(fetches, Fetch("refresh"))
    /\ UNCHANGED <<clock, areas, reports, posts, listed, lastDelete, localReports,
                   isSubmitting, isLoaded, removing, modalVars>>

\* The server answers the GET of the hook's request k
FetchServed(k, ok, sorted) ==
    /\ k \in DOMAIN fetches
    /\ fetches[k].pc = "sent"
    /\ GET(ok, sorted)
    /\ fetches' = [fetches EXCEPT ![k].pc = "responded", ![k].response = listed']
    /\ UNCHANGED <<isLoaded, removing>>

\* fetchReports or refreshReports resumed after fetch: setReports(data) when response.ok
FetchResumed(k) ==
    /\ k \in DOMAIN fetches
    /\ fetches[k].pc = "responded"
    /\ LET response == Val(fetches[k].response) IN
       localReports' = IF response.status = 200 THEN response.reports ELSE localReports
    /\ isLoaded' = IF fetches[k].kind = "mount" THEN TRUE ELSE isLoaded
    /\ fetches' = [fetches EXCEPT ![k].pc = "done", ![k].response = Null]
    /\ listed' = Null
    /\ lastDelete' = Null
    /\ UNCHANGED <<clock, areas, reports, posts, isSubmitting, removing, modalVars>>

\* The ids of the reports in a list
IdsOf(list) == {list[k].id : k \in DOMAIN list}

\* list.filter((r) => r.id !== id)
WithoutId(list, id) == SelectSeq(list, LAMBDA r : r.id # id)

\* removeReport(id) up to its await of fetch, for a report the list shows
removeReport(id) ==
    /\ id \in IdsOf(localReports)
    /\ \A d \in removing : d.id # id
    /\ removing' = removing \cup {[id |-> id, pc |-> "sent", ok |-> FALSE]}
    /\ listed' = Null
    /\ lastDelete' = Null
    /\ UNCHANGED <<clock, areas, reports, posts, localReports, isSubmitting, isLoaded,
                   fetches, modalVars>>

\* DELETE /api/reports/[id]: removes the report of that id; not found when there is none
DELETEReport(d) ==
    /\ d \in removing
    /\ d.pc = "sent"
    /\ reports' = SelectSeq(reports, LAMBDA doc : ObjectIdString(Val(doc._id)) # d.id)
    /\ removing' = (removing \ {d}) \cup
                      {[d EXCEPT !.pc = "responded", !.ok = Len(reports') < Len(reports)]}
    /\ listed' = Null
    /\ lastDelete' = Null
    /\ UNCHANGED <<clock, areas, posts, localReports, isSubmitting, isLoaded, fetches,
                   modalVars>>

\* removeReport resumed after fetch
removeReportResumed(d) ==
    /\ d \in removing
    /\ d.pc = "responded"
    /\ localReports' = IF d.ok THEN WithoutId(localReports, d.id) ELSE localReports
    /\ removing' = removing \ {d}
    /\ listed' = Null
    /\ lastDelete' = Null
    /\ UNCHANGED <<clock, areas, reports, posts, isSubmitting, isLoaded, fetches, modalVars>>

clearReports ==
    /\ localReports # <<>>
    /\ localReports' = <<>>
    /\ listed' = Null
    /\ lastDelete' = Null
    /\ UNCHANGED <<clock, areas, reports, posts, isSubmitting, isLoaded, fetches, removing,
                   modalVars>>

HookSubmit == \E body \in HookBodies : addReport(body)

HookPost == \E i \in DOMAIN posts : POST(i, TRUE)

HookLookup == \E i \in DOMAIN posts : FindOneDone(i, TRUE, Null)

HookInsert == \E i \in DOMAIN posts : InsertOneDone(i, TRUE)

Serve ==
    \E k \in DOMAIN fetches : \E ok \in BOOLEAN :
        \E sorted \in {<<>>} \cup SortedByCreatedAtDesc(reports) : FetchServed(k, ok, sorted)

Load == \E k \in DOMAIN fetches : FetchResumed(k)

Remove == \E id \in IdsOf(localReports) : removeReport(id)

ReportDeleted == \E d \in removing : DELETEReport(d)

Removed == \E d \in removing : removeReportResumed(d)

HookNext ==
    \/ fetchReports
    \/ refreshReports
    \/ Serve
    \/ Load
    \/ HookSubmit
    \/ HookPost
    \/ HookLookup
    \/ HookInsert
    \/ Respond
    \/ Remove
    \/ ReportDeleted
    \/ Removed
    \/ clearReports
    \/ Tick

HookSpec == Init /\ [][HookNext]_vars

----------------------------------------------------------------------------
(* Vocabulary of the claims *)

\* Every transient field has the value useState gave it
TransientInitial ==
    /\ step = "select"
    /\ file = Null
    /\ mediaUrl = Null
    /\ coordinates = Null
    /\ geoMethod = "auto"
    /\ geoError = Null
    /\ analysis = Null
    /\ isAnalyzing = FALSE
    /\ error = Null

\* The continuation of the awaited call c runs, with any outcome
Completion(c) ==
    \/ \E sz \in BlobSizes : ConvertResolved(c, sz)
    \/ ConvertRejected(c)
    \/ \E pos \in DeviceFixes : GeoResolved(c, pos)
    \/ GeoRejected(c)
    \/ \E r \in Results : AnalyzeResolved(c, r)
    \/ AnalyzeRejected(c)

\* The number of outstanding calls of a kind in the bag cs
Outstanding(kind, cs) ==
    BagCardinality([c \in {d \in BagToSet(cs) : d.kind = kind} |-> cs[c]])

\* How often the report of an id occurs in a list of the hook
Count(list, id) == Cardinality({k \in DOMAIN list : list[k].id = id})

RejectedInputs == {Notes, PhotoOver, Photo25}

AcceptedInputs == {ClipExact, HeicByExt, HeifByType}

----------------------------------------------------------------------------
(* C1: once the draft has been reset (handleClose, resetState or             *)
(* handleBackFromLocation) while a conversion, geolocation or analysis call  *)
(* is outstanding, the late completion of that call changes none of step,    *)
(* file, mediaUrl, coordinates, geoMethod, geoError, analysis and error.     *)
C1_LateResponseIgnored ==
    [][\A c \in BagToSet(calls) :
          (c.stale /\ Completion(c)) =>
              UNCHANGED <<step, file, mediaUrl, coordinates, geoMethod, geoError,
                          analysis, error>>]_vars

(* C2: every handle created by URL.createObjectURL is either the held        *)
(* mediaUrl or has been revoked, and is revoked exactly once: a held handle  *)
(* is never overwritten without being revoked.                               *)
C2_HandleHeldOrRevokedOnce ==
    \A h \in Handles :
        IF mediaUrl = Some(h) THEN revoked[h] = 0 ELSE revoked[h] = 1

(* C3: in the location step every map interaction of the reporter sets       *)
(* geoMethod to manual and clears the geolocation warning, also after an     *)
(* error-free automatic fix; so a submitted report with geoMethod auto       *)
(* carries exactly the coordinates of the device fix.                        *)
C3_ManualMoveSetsManual ==
    /\ [][\A pos \in PinPositions :
             ManualCenterChange(pos) => geoMethod' = "manual" /\ geoError' = Null]_vars
    /\ [][\A i \in DOMAIN submitted' :
             submitted'[i].geoMethod = "auto" => submitted'[i].coordinates \in DeviceFixes]_vars

(* C4: when the analysis call started by handleAnalyze fails, the step       *)
(* becomes location, an error message is set, no AnalysisResult of that call *)
(* is stored, and file, mediaUrl and coordinates have the values they had    *)
(* when handleAnalyze was invoked.                                           *)
C4_AnalyzeFailureKeepsInputs ==
    [][\A c \in BagToSet(calls) :
          AnalyzeRejected(c) =>
              /\ step' = "location"
              /\ error' # Null
              /\ analysis' = analysis
              /\ file' = c.file
              /\ mediaUrl' = c.media
              /\ coordinates' = c.coords]_vars

(* C5: the transition location -> analyzing is refused whenever the file or  *)
(* the coordinates are null: handleAnalyze then changes no field and sends   *)
(* no analysis request; it is enabled once a file and coordinates are set.   *)
C5_ConfirmRequiresFileAndCoordinates ==
    /\ [][(file = Null \/ coordinates = Null) =>
             /\ ~(step # "analyzing" /\ step' = "analyzing")
             /\ Outstanding("analyze", calls') <= Outstanding("analyze", calls)
             /\ handleAnalyze => UNCHANGED <<isOpen, progVars, calls, revoked, submitted>>]_vars
    /\ [][(file # Null /\ coordinates # Null /\ handleAnalyze) =>
             /\ step' = "analyzing"
             /\ Outstanding("analyze", calls') = Outstanding("analyze", calls) + 1]_vars
    /\ [](isOpen /\ step = "location" /\ ~isAnalyzing /\ file # Null /\ coordinates # Null
            => ConfirmEnabled)

\* handleAnalyze was invoked on a location without a file and returned early
C5_Witness ==
    /\ returnedEarly
    /\ isOpen
    /\ step = "location"
    /\ file = Null
    /\ coordinates # Null

(* C6: handleSubmit hands a draft to onSubmit only when file, mediaUrl,      *)
(* coordinates and analysis are all non-null, exactly once per submit, and   *)
(* then every transient field has its initial value and onClose was called;  *)
(* when one of the four is null nothing is handed over and nothing changes.  *)
C6_SubmitHandsOverOnceAndResets ==
    [][/\ handleSubmit =>
            IF file = Null \/ mediaUrl = Null \/ coordinates = Null \/ analysis = Null
            THEN UNCHANGED <<isOpen, progVars, calls, revoked, submitted>>
            ELSE /\ Len(submitted') = Len(submitted) + 1
                 /\ SubSeq(submitted', 1, Len(submitted)) = submitted
                 /\ submitted'[Len(submitted')].coordinates = Val(coordinates)
                 /\ submitted'[Len(submitted')].mediaUrl = Val(mediaUrl)
                 /\ submitted'[Len(submitted')].analysis = Val(analysis)
                 /\ submitted'[Len(submitted')].geoMethod = geoMethod
                 /\ submitted'[Len(submitted')].ofFile = file
                 /\ TransientInitial'
                 /\ ~isOpen'
       /\ submitted' # submitted =>
            /\ handleSubmit
            /\ file # Null /\ mediaUrl # Null /\ coordinates # Null /\ analysis # Null]_vars

\* A draft has been handed over and the modal is reset and closed
C6_Witness ==
    /\ Len(submitted) = 1
    /\ ~isOpen
    /\ TransientInitial
    /\ revoked[submitted[1].mediaUrl] = 1

(* C7: cancel (handleClose) invoked in any step, select, converting,         *)
(* location, analyzing or review, leaves every transient field at its        *)
(* initial value and revokes the held media handle if there is one.          *)
C7_CancelFromAnyStep ==
    /\ isOpen => ENABLED handleClose
    /\ ~ENABLED (handleClose /\ ~(TransientInitial' /\ ~isOpen'))
    /\ \A h \in Handles :
          mediaUrl = Some(h) => ~ENABLED (handleClose /\ revoked'[h] # revoked[h] + 1)

(* C7 as amended: cancel is offered in the steps select, converting,         *)
(* analyzing and review (the location step offers only Back); invoked there  *)
(* it leaves every transient field at its initial value, closes the modal    *)
(* and revokes the held media handle if there is one.                        *)
C7_CancelWhereOffered ==
    /\ (isOpen /\ step \in {"select", "converting", "analyzing", "review"}) =>
          ENABLED handleClose
    /\ ~ENABLED (handleClose /\ ~(TransientInitial' /\ ~isOpen'))
    /\ \A h \in Handles :
          mediaUrl = Some(h) => ~ENABLED (handleClose /\ revoked'[h] # revoked[h] + 1)

\* Cancelled in the analyzing step, where handle 1 was held: everything is initial,
\* the modal is closed and the handle is revoked
C7_Witness ==
    /\ ~isOpen
    /\ TransientInitial
    /\ submitted = <<>>
    /\ revoked = <<1>>
    /\ \E c \in BagToSet(calls) : c.kind = "analyze" /\ c.stale /\ c.media = Some(1)

(* C8: a selection that is neither image nor video, or larger than 20 MiB    *)
(* (25 MiB is rejected, exactly 20 MiB is accepted), is rejected with an     *)
(* error message before any state transition: step, file, mediaUrl,          *)
(* coordinates, geoMethod and analysis are unchanged and no conversion,      *)
(* handle creation or geolocation request is started.                        *)
C8_InvalidSelectionRejected ==
    [][/\ \A f \in RejectedInputs :
            handleFileSelect(Some(f)) =>
                /\ error' # Null
                /\ UNCHANGED <<step, file, mediaUrl, coordinates, geoMethod, analysis,
                               calls, revoked>>
       /\ \A f \in AcceptedInputs :
            handleFileSelect(Some(f)) =>
                /\ error' = Null
                /\ step' \in {"converting", "location"}
                /\ BagCardinality(calls') = BagCardinality(calls) + 1]_vars

\* An oversized file was chosen: only the error message shows it
C8_Witness ==
    /\ returnedEarly
    /\ error = Some(ErrTooLarge)
    /\ step = "select"
    /\ file = Null
    /\ mediaUrl = Null
    /\ calls = EmptyBag

(* C9: for a HEIC/HEIF file (by extension or by content type)                *)
(* handleFileSelect enters converting; if the conversion fails the step      *)
(* returns to select with an error message, file and mediaUrl stay null, no  *)
(* handle is created and no geolocation request is started; if it succeeds   *)
(* the step becomes location with the converted file held.                   *)
C9_ConversionOutcome ==
    [][/\ \A f \in {HeicByExt, HeifByType} :
            handleFileSelect(Some(f)) => step' = "converting"
       /\ \A c \in BagToSet(calls) :
            /\ ConvertRejected(c) =>
                  /\ step' = "select"
                  /\ error' # Null
                  /\ file' = Null
                  /\ mediaUrl' = Null
                  /\ revoked' = revoked
                  /\ Outstanding("geo", calls') = Outstanding("geo", calls)
            /\ (\E sz \in BlobSizes : ConvertResolved(c, sz)) =>
                  /\ step' = "location"
                  /\ file' # Null
                  /\ Val(file').type = "image/jpeg"
                  /\ Val(file').ext \notin {"HEIC", "heic", "HEIF", "heif"}
                  /\ mediaUrl' # Null]_vars

(* C10: when the automatic geolocation attempt made on entry to location     *)
(* fails, the coordinates are null, geoMethod is manual, a warning is set    *)
(* and the workflow stays in location, so that the reporter can still set    *)
(* coordinates manually and proceed to analysis.                             *)
C10_GeoFailureLeavesNoCoordinates ==
    [][\A c \in BagToSet(calls) :
          (~c.stale /\ GeoRejected(c)) =>
              /\ coordinates' = Null
              /\ geoMethod' = "manual"
              /\ geoError' # Null
              /\ step' = "location"]_vars

(* C10 as amended: when a geolocation attempt fails, geoMethod becomes       *)
(* manual and a warning is set while the step, the file, the handle, the     *)
(* analysis and the coordinates stay as they are (coordinates the reporter   *)
(* set meanwhile are kept, otherwise they stay null); nothing is reset, and  *)
(* in location a manual reposition then sets coordinates and enables the     *)
(* confirmation.                                                             *)
C10_GeoFailureDegradesToManual ==
    [][/\ \A c \in BagToSet(calls) :
            GeoRejected(c) =>
                /\ geoMethod' = "manual"
                /\ geoError' = Some(ErrGeo)
                /\ UNCHANGED <<isOpen, step, file, mediaUrl, coordinates, analysis,
                               isAnalyzing, error, revoked>>
       /\ \A pos \in PinPositions :
            (geoError # Null /\ ~isAnalyzing /\ ManualCenterChange(pos)) =>
                /\ coordinates' = Some(pos)
                /\ geoMethod' = "manual"
                /\ geoError' = Null
                /\ ConfirmEnabled']_vars

\* The attempt failed after the reporter had positioned the map: the position is kept
C10_Witness ==
    /\ isOpen
    /\ step = "location"
    /\ geoError = Some(ErrGeo)
    /\ geoMethod = "manual"
    /\ coordinates = Some("pin")
    /\ file # Null

(* C11: at most one analysis request is in flight at any time: across any    *)
(* sequence of select, confirm, back, close and reopen, handleAnalyze cannot *)
(* start a request while the response to an earlier one is outstanding.      *)
C11_OneAnalysisInFlight == Outstanding("analyze", calls) <= 1

(* C12: for any interleaving of concurrent POST /reports requests, a GET     *)
(* /reports issued when a create has just completed returns the report of    *)
(* that create as its first element, and the returned sequence is in         *)
(* descending creation-time order.                                           *)
C12_ListNewestFirst ==
    [][\A sorted \in SortedByCreatedAtDesc(reports) :
          (reports # <<>> /\ GET(TRUE, sorted)) =>
              LET list == Val(listed').reports IN
              /\ list[1].id = ObjectIdString(Val(reports[Len(reports)]._id))
              /\ \A i, j \in DOMAIN list :
                    i < j => list[i].createdAt[2] >= list[j].createdAt[2]]_vars

(* C13: a report created by POST /reports is persisted with a routing        *)
(* assignment {areaId, matchedBy = geoWithin, matchedAt} referencing an area *)
(* if and only if some area that is active at lookup time has a polygon      *)
(* containing the report's point; when only inactive areas or no areas       *)
(* contain the point it is persisted with no routing assignment and the      *)
(* create still succeeds with status open.                                   *)
C13_RoutedIffActiveAreaContains ==
    [][\A i \in DOMAIN posts :
          LET c == Val(posts[i].body.coordinates)
              containing == {a \in areas : a.isActive /\ <<c.lng, c.lat>> \in a.polygon}
          IN
          /\ (\E found \in {Null} \cup {Some(a) : a \in areas} : FindOneDone(i, TRUE, found)) =>
                LET routing == Val(posts'[i].doc).routing IN
                /\ routing # Null <=> containing # {}
                /\ routing # Null =>
                      /\ Val(routing).assignedAreaId \in {a.id : a \in containing}
                      /\ Val(routing).matchedBy = "geoWithin"
                      /\ Val(routing).matchedAt = Val(posts[i].doc).createdAt
          /\ InsertOneDone(i, TRUE) =>
                /\ Len(reports') = Len(reports) + 1
                /\ reports'[Len(reports')].routing = Val(posts[i].doc).routing
                /\ reports'[Len(reports')].status = "open"
                /\ Val(posts'[i].response).status = 201]_vars

\* A report in two active areas and an inactive one is stored with a routing
\* assignment, and a report in an inactive area only is stored without one
C13_Witness ==
    /\ Len(reports) = 2
    /\ \E k \in DOMAIN reports :
          /\ reports[k].location.coordinates = <<-121, 36>>
          /\ reports[k].routing # Null
    /\ \E k \in DOMAIN reports :
          /\ reports[k].location.coordinates = <<-74, 40>>
          /\ reports[k].routing = Null
          /\ reports[k].status = "open"

(* C14: the response of POST /reports is the full created record: it carries *)
(* the generated id, the creation timestamp and, whenever the persisted      *)
(* report has a routing assignment, that same routing assignment.            *)
C14_ResponseIsFullRecord ==
    [][\A i \in DOMAIN posts :
          InsertOneDone(i, TRUE) =>
              LET stored == reports'[Len(reports')]
                  answer == Val(Val(posts'[i].response).report)
              IN
              /\ answer.id = ObjectIdString(Val(stored._id))
              /\ answer.createdAt = toISOString(stored.createdAt)
              /\ stored.routing # Null =>
                    /\ "routing" \in DOMAIN answer
                    /\ answer["routing"] = stored.routing]_vars

(* C15: when several active area polygons contain a report's point, the area *)
(* the router chooses is a function of the point and the set of active       *)
(* areas: two creates with identical coordinates against an identical area   *)
(* set are assigned the same area.                                           *)
C15_RoutingChoiceStable ==
    areas = SeedAreas =>
        \A i, j \in DOMAIN posts :
            (/\ posts[i].pc \in {"insertOne", "responded", "returned"}
             /\ posts[j].pc \in {"insertOne", "responded", "returned"}
             /\ posts[i].doc # Null
             /\ posts[j].doc # Null
             /\ posts[i].body.coordinates = posts[j].body.coordinates)
            => LET ri == Val(posts[i].doc).routing
                   rj == Val(posts[j].doc).routing
               IN  /\ ri = Null <=> rj = Null
                   /\ ri # Null => Val(ri).assignedAreaId = Val(rj).assignedAreaId

(* C16: the routing assignment of a persisted report never changes after     *)
(* creation: later area changes, in particular DELETE /areas/{id} of the     *)
(* assigned area, and later creates leave every existing report's routing    *)
(* assignment unchanged.                                                     *)
C16_RoutingNeverRecomputed ==
    [][\A k \in DOMAIN reports :
          /\ k \in DOMAIN reports'
          /\ reports'[k]._id = reports[k]._id
          /\ reports'[k].routing = reports[k].routing]_vars

\* The area a stored report is assigned to has just been deleted, and the report
\* still carries the assignment
C16_Witness ==
    /\ lastDelete = Some([id |-> City.id, status |-> 200])
    /\ City \notin areas
    /\ \E k \in DOMAIN reports :
          /\ reports[k].routing # Null
          /\ Val(reports[k].routing).assignedAreaId = City.id

(* C17: every report created by POST /reports has status open, whatever the  *)
(* request body contains, and an id that is non-empty and different from the *)
(* id of every other report ever created.                                    *)
C17_StatusOpenAndFreshId ==
    /\ \A k \in DOMAIN reports :
          /\ reports[k].status = "open"
          /\ reports[k]._id # Null
          /\ \A l \in DOMAIN reports : l # k => reports[l]._id # reports[k]._id
    /\ \A i, j \in DOMAIN posts :
          (posts[i].response # Null /\ Val(posts[i].response).status = 201) =>
              LET created == Val(Val(posts[i].response).report) IN
              /\ created.status = "open"
              /\ created.id.chars > 0
              /\ created.id = ObjectIdString(Val(Val(posts[i].doc)._id))
              /\ (j # i /\ posts[j].response # Null /\ Val(posts[j].response).status = 201)
                    => Val(Val(posts[j].response).report).id # created.id

\* Two reports were created, one of them from a body that carried status resolved
C17_Witness ==
    /\ Len(reports) = 2
    /\ \E i \in DOMAIN posts :
          /\ posts[i].body.status = Some("resolved")
          /\ posts[i].response # Null
          /\ Val(posts[i].response).status = 201

(* C18: DELETE /areas/{id} answers 400 for a malformed id without touching   *)
(* the store, 404 for a well-formed id of no existing area leaving the store *)
(* unchanged, and success for an existing area, removing exactly that area;  *)
(* deleting the same area twice gives success then 404.                      *)
C18_DeleteAreaAnswers ==
    [][\A id \in DeleteIds :
          DELETE(id, TRUE) =>
              LET answer == Val(lastDelete').status
                  named == {a \in areas : a.id = id}
              IN
              /\ id = NotAnObjectId =>
                    answer = 400 /\ areas' = areas /\ reports' = reports
              /\ (id # NotAnObjectId /\ named = {}) =>
                    answer = 404 /\ areas' = areas /\ reports' = reports
              /\ named # {} =>
                    /\ answer = 200
                    /\ areas' = areas \ named
                    /\ Cardinality(named) = 1
                    /\ reports' = reports
              /\ answer = 200 => \A a \in areas' : a.id # id]_vars

\* The area City was deleted before, and deleting it again was answered 404 with the
\* other areas still there
C18_Witness ==
    /\ lastDelete = Some([id |-> City.id, status |-> 404])
    /\ areas = {District, Retired}

(* C19: when the routing lookup or the insert of POST /reports fails, the     *)
(* caller receives a generic creation failure and no report, partial or      *)
(* complete, of that request is visible to a later GET /reports; on the      *)
(* client a failed addReport returns null and leaves the local reports list  *)
(* unchanged.                                                                *)
C19_FailedCreateLeavesNothing ==
    [][/\ \A i \in DOMAIN posts :
            /\ (FindOneDone(i, FALSE, Null) \/ InsertOneDone(i, FALSE)) =>
                  /\ posts'[i].response = Some(Failed(500, "Failed to create report"))
                  /\ reports' = reports
            /\ (addReportResumed(i) /\ Val(posts[i].response).status # 201) =>
                  /\ Returned(i) = Null
                  /\ localReports' = localReports
       /\ \A sorted \in SortedByCreatedAtDesc(reports) :
            GET(TRUE, sorted) =>
                \A k \in DOMAIN Val(listed').reports :
                    \E i \in DOMAIN posts :
                        /\ posts[i].response # Null
                        /\ Val(posts[i].response).status = 201
                        /\ Val(Val(posts[i].response).report).id = Val(listed').reports[k].id]_vars

\* One create failed after its document was built and addReport returned null; the
\* other succeeded, and GET lists that one alone
C19_Witness ==
    /\ \E i \in DOMAIN posts :
          /\ posts[i].pc = "returned"
          /\ posts[i].doc # Null
          /\ Val(posts[i].response).status = 500
    /\ Len(localReports) = 1
    /\ listed # Null
    /\ Val(listed).status = 200
    /\ Len(Val(listed).reports) = 1

(* C20: no failure leaves the workflow in a transient step: when every       *)
(* outstanding conversion and analysis call eventually completes (success or *)
(* failure), whenever the step is converting or analyzing the step           *)
(* eventually becomes one of select, location or review, and isAnalyzing     *)
(* eventually becomes false.                                                 *)
C20_TransientStepsAreLeft ==
    /\ (step \in {"converting", "analyzing"}) ~> (step \in {"select", "location", "review"})
    /\ isAnalyzing ~> ~isAnalyzing

\* The analysis request of the draft failed: the workflow is back in location with
\* the draft's file and coordinates, an error message, and nothing outstanding
C20_Witness ==
    /\ isOpen
    /\ step = "location"
    /\ error = Some(ErrAnalyze)
    /\ ~isAnalyzing
    /\ file # Null
    /\ coordinates # Null
    /\ Outstanding("analyze", calls) = 0
    /\ Outstanding("convert", calls) = 0

(* C21: in every reachable state of the upload workflow, step = analyzing    *)
(* implies file and coordinates are non-null, and step = review implies      *)
(* file, mediaUrl, coordinates and analysis are all non-null.                *)
C21_StepDataInvariant ==
    /\ step = "analyzing" => file # Null /\ coordinates # Null
    /\ step = "review" =>
          file # Null /\ mediaUrl # Null /\ coordinates # Null /\ analysis # Null

(* C22: the AnalysisResult contained in a draft handed to onSubmit was        *)
(* returned by an analysis request that was sent with the very file          *)
(* contained in that draft: a result of a request made for an earlier,       *)
(* cancelled or replaced file is never submitted with a different file.      *)
C22_AnalysisBelongsToSubmittedFile ==
    \A i \in DOMAIN submitted : submitted[i].analysisOf = submitted[i].ofFile

(* C23: once the reporter has confirmed a location (handleAnalyze accepted),  *)
(* the coordinates and geoMethod do not change while the step is analyzing   *)
(* or review, so the draft handed to onSubmit carries the coordinates and    *)
(* geoMethod of the last confirmation, also when the automatic geolocation   *)
(* fix resolves after the reporter positioned the map and confirmed.         *)
C23_ConfirmedLocationFrozen ==
    [][(step \in {"analyzing", "review"} /\ step' \in {"analyzing", "review"}) =>
          UNCHANGED <<coordinates, geoMethod>>]_vars

(* C24: in useReports, once addReport has returned a created report it stays *)
(* in the local reports list, exactly once, until removeReport for its id    *)
(* succeeds or clearReports is called, for every interleaving of addReport   *)
(* with the initial fetch and refreshReports responses; and the local list   *)
(* stays ordered newest-first by creation time for every order in which      *)
(* concurrent addReport responses arrive.                                    *)
C24_LocalListKeepsAddedReports ==
    [][/\ \A i \in DOMAIN posts :
            (posts[i].response # Null /\ Val(posts[i].response).status = 201) =>
                LET id == Val(Val(posts[i].response).report).id IN
                /\ addReportResumed(i) => Count(localReports', id) = 1
                /\ (/\ posts[i].pc = "returned"
                    /\ Count(localReports, id) = 1
                    /\ ~clearReports
                    /\ ~\E d \in removing : d.id = id /\ d.ok /\ removeReportResumed(d))
                   => Count(localReports', id) = 1
       /\ (\E i \in DOMAIN posts : addReportResumed(i)) =>
             \A a, b \in DOMAIN localReports' :
                 a < b => localReports'[a].createdAt[2] >= localReports'[b].createdAt[2]]_vars

(* C25: the mediaUrl of a draft handed to onSubmit, and therefore of the     *)
(* report persisted from it, refers to a media handle that has not been      *)
(* revoked at the moment the report is persisted and later listed: no draft  *)
(* handed over names a revoked handle.                                       *)
C25_SubmittedMediaNotRevoked ==
    \A i \in DOMAIN submitted : revoked[submitted[i].mediaUrl] = 0

====
